---- MODULE Spec2Model ----
(***************************************************************************)
(* Region selection and capture of React-Screen-Shot-Feature.              *)
(*                                                                         *)
(* Two components are modelled, each from its source file:                 *)
(*   App               (src/src/App.tsx)  button-driven select/drag/resize *)
(*   ScreenCaptureTool (src/src/ScreenCaptureTool.tsx)  overlay draw       *)
(* One of them is mounted; the state of the other keeps its initial value. *)
(* React state is one variable per useState cell; every event handler is   *)
(* one action and sees the state of the last render.  The raster request   *)
(* (html2canvas) is the only suspension point: a request in flight is an   *)
(* element of `pending`, carrying what the suspended closure captured.     *)
(***************************************************************************)
EXTENDS Integers, Sequences, FiniteSets, TLC

VARIABLES
    mounted,          \* "App" or "Tool": the component that is rendered
    ptr,              \* pointer position of the last mouse event (clientX, clientY)
    scroll,           \* window.scrollX / window.scrollY
    \* ---- App.tsx useState cells
    isSelecting,
    selection,
    startPos,
    isDragging,
    dragOffset,
    isResizing,
    resizeType,
    resizeStartPos,
    \* ---- ScreenCaptureTool.tsx useState cells and the overlay's bounding box
    sctIsCapturing,
    sctIsSelecting,
    selectionArea,
    overlayRect,
    \* ---- raster requests in flight and what the last finished one did
    pending,
    out,
    events            \* number of events handled so far (bounds the run)

vars == <<mounted, ptr, scroll, isSelecting, selection, startPos, isDragging,
          dragOffset, isResizing, resizeType, resizeStartPos, sctIsCapturing,
          sctIsSelecting, selectionArea, overlayRect, pending, out, events>>

appVars == <<isSelecting, selection, startPos, isDragging, dragOffset,
             isResizing, resizeType, resizeStartPos>>

sctVars == <<sctIsCapturing, sctIsSelecting, selectionArea>>

----------------------------------------------------------------------------
(* Bounds of the model *)

PtrFar == 30
MaxCoord == 50
ScrollShiftX == 7
ScrollShiftY == 500
OverlayShiftX == 5
OverlayShiftY == 3
MaxEvents == 8
MaxInFlight == 2

(* Program constants *)

MIN_SELECTION_SIZE == 20
SCT_MIN_SIZE == 10

----------------------------------------------------------------------------
(* Values *)

NULL == <<>>
Some(v) == <<v>>
Val(o) == o[1]

Coords == {0, PtrFar}
Points == [x : Coords, y : Coords]
Scrolls ==
    {[x |-> 0, y |-> 0], [x |-> 0, y |-> ScrollShiftY],
     [x |-> ScrollShiftX, y |-> ScrollShiftY]}
\* getBoundingClientRect() of the overlay <div>: fixed at the viewport origin, or
\* displaced up and left when an ancestor establishes the containing block
OverlayRects ==
    {[left |-> 0, top |-> 0],
     [left |-> 0 - OverlayShiftX, top |-> 0 - OverlayShiftY]}

RESIZE_HANDLES == {"nw", "n", "ne", "e", "se", "s", "sw", "w"}

\* resizeType.includes(c)
HandleChars ==
    [nw |-> {"n", "w"}, n |-> {"n"}, ne |-> {"n", "e"}, e |-> {"e"},
     se |-> {"s", "e"}, s |-> {"s"}, sw |-> {"s", "w"}, w |-> {"w"}]

Includes(type, c) == c \in HandleChars[type]

MathMin(a, b) == IF a < b THEN a ELSE b
MathMax(a, b) == IF a > b THEN a ELSE b
MathAbs(a) == IF a < 0 THEN 0 - a ELSE a

\* bound of the model: the rectangles it keeps lie inside the window 0..MaxCoord
InBounds(r) ==
    /\ r.x >= 0
    /\ r.y >= 0
    /\ r.x + r.width <= MaxCoord
    /\ r.y + r.height <= MaxCoord

----------------------------------------------------------------------------
(* App.tsx: pure helpers *)

\* slip: the first point taken as the corner, the size left signed
createSelection_Unnormalized(x1, y1, x2, y2) ==
    [x |-> x1, y |-> y1, width |-> x2 - x1, height |-> y2 - y1]

\* slip: Math.abs forgotten
createSelection_NoAbs(x1, y1, x2, y2) ==
    [x |-> MathMin(x1, x2),
     y |-> MathMin(y1, y2),
     width |-> x2 - x1,
     height |-> y2 - y1]

createSelection(x1, y1, x2, y2) ==
    [x |-> MathMin(x1, x2),
     y |-> MathMin(y1, y2),
     width |-> MathAbs(x2 - x1),
     height |-> MathAbs(y2 - y1)]

\* slip: Math.max(MIN_SELECTION_SIZE, ...) forgotten
calculateResize_NoClamp(rsp, type, currentX, currentY) ==
    LET deltaX == currentX - rsp.startX
        deltaY == currentY - rsp.startY
    IN  [x |-> IF Includes(type, "w") THEN rsp.x + deltaX ELSE rsp.x,
         y |-> IF Includes(type, "n") THEN rsp.y + deltaY ELSE rsp.y,
         width |-> IF Includes(type, "w") THEN rsp.width - deltaX
                   ELSE IF Includes(type, "e") THEN rsp.width + deltaX
                   ELSE rsp.width,
         height |-> IF Includes(type, "n") THEN rsp.height - deltaY
                    ELSE IF Includes(type, "s") THEN rsp.height + deltaY
                    ELSE rsp.height]

\* slip: the 'w' and 'n' rules resize but forget to move the origin
calculateResize_OriginKept(rsp, type, currentX, currentY) ==
    LET deltaX == currentX - rsp.startX
        deltaY == currentY - rsp.startY
    IN  [x |-> rsp.x,
         y |-> rsp.y,
         width |-> IF Includes(type, "w")
                   THEN MathMax(MIN_SELECTION_SIZE, rsp.width - deltaX)
                   ELSE IF Includes(type, "e")
                   THEN MathMax(MIN_SELECTION_SIZE, rsp.width + deltaX)
                   ELSE rsp.width,
         height |-> IF Includes(type, "n")
                    THEN MathMax(MIN_SELECTION_SIZE, rsp.height - deltaY)
                    ELSE IF Includes(type, "s")
                    THEN MathMax(MIN_SELECTION_SIZE, rsp.height + deltaY)
                    ELSE rsp.height]

\* slip: the 'w' and 'n' rules derive the origin from the clamped size
calculateResize_OriginClamped(rsp, type, currentX, currentY) ==
    LET deltaX == currentX - rsp.startX
        deltaY == currentY - rsp.startY
        newWidth == IF Includes(type, "w")
                    THEN MathMax(MIN_SELECTION_SIZE, rsp.width - deltaX)
                    ELSE IF Includes(type, "e")
                    THEN MathMax(MIN_SELECTION_SIZE, rsp.width + deltaX)
                    ELSE rsp.width
        newHeight == IF Includes(type, "n")
                     THEN MathMax(MIN_SELECTION_SIZE, rsp.height - deltaY)
                     ELSE IF Includes(type, "s")
                     THEN MathMax(MIN_SELECTION_SIZE, rsp.height + deltaY)
                     ELSE rsp.height
    IN  [x |-> IF Includes(type, "w") THEN rsp.x + rsp.width - newWidth ELSE rsp.x,
         y |-> IF Includes(type, "n") THEN rsp.y + rsp.height - newHeight ELSE rsp.y,
         width |-> newWidth, height |-> newHeight]

calculateResize(rsp, type, currentX, currentY) ==
    LET deltaX == currentX - rsp.startX
        deltaY == currentY - rsp.startY
        \* horizontal: the 'e' rule, then the 'w' rule overriding it
        wE == IF Includes(type, "e")
              THEN MathMax(MIN_SELECTION_SIZE, rsp.width + deltaX)
              ELSE rsp.width
        newWidth == IF Includes(type, "w")
                    THEN MathMax(MIN_SELECTION_SIZE, rsp.width - deltaX)
                    ELSE wE
        newX == IF Includes(type, "w") THEN rsp.x + deltaX ELSE rsp.x
        hS == IF Includes(type, "s")
              THEN MathMax(MIN_SELECTION_SIZE, rsp.height + deltaY)
              ELSE rsp.height
        newHeight == IF Includes(type, "n")
                     THEN MathMax(MIN_SELECTION_SIZE, rsp.height - deltaY)
                     ELSE hS
        newY == IF Includes(type, "n") THEN rsp.y + deltaY ELSE rsp.y
    IN  [x |-> newX, y |-> newY, width |-> newWidth, height |-> newHeight]

----------------------------------------------------------------------------
(* App.tsx: what the render puts under the pointer *)

\* The pointer grid is coarse: a grid point on an edge of the rectangle stands for
\* the pixels around it, which hold both the 8px handle and the body beside it.

\* the selection body <div onMouseDown={handleStartDrag}> covers the rectangle
OnBody(r, p) ==
    /\ r.x <= p.x /\ p.x <= r.x + r.width
    /\ r.y <= p.y /\ p.y <= r.y + r.height

\* a resize handle sits on the edge(s) its type names
OnHandle(r, type, p) ==
    /\ IF Includes(type, "e") THEN p.x = r.x + r.width
       ELSE IF Includes(type, "w") THEN p.x = r.x
       ELSE r.x <= p.x /\ p.x <= r.x + r.width
    /\ IF Includes(type, "s") THEN p.y = r.y + r.height
       ELSE IF Includes(type, "n") THEN p.y = r.y
       ELSE r.y <= p.y /\ p.y <= r.y + r.height

\* window listeners are registered only while an interaction flag is set
ListenersActive == isSelecting \/ isDragging \/ isResizing

----------------------------------------------------------------------------
(* ScreenCaptureTool.tsx: helpers *)

\* the overlay <div> is 100vw x 100vh from its left/top corner
OnOverlay(p) == p.x >= overlayRect.left /\ p.y >= overlayRect.top

\* handleMouseUp lines 71-80: overlay-relative points to a viewport rectangle
sctCropArea(area, rect) ==
    LET actualStartX == area.startX + rect.left
        actualStartY == area.startY + rect.top
        actualEndX == area.endX + rect.left
        actualEndY == area.endY + rect.top
    IN  [x |-> MathMin(actualStartX, actualEndX),
         y |-> MathMin(actualStartY, actualEndY),
         width |-> MathAbs(actualEndX - actualStartX),
         height |-> MathAbs(actualEndY - actualStartY)]

\* handleMouseUp line 82
sctTooSmall_BothBelow(a) == a.width < SCT_MIN_SIZE /\ a.height < SCT_MIN_SIZE

sctTooSmall(a) == a.width < SCT_MIN_SIZE \/ a.height < SCT_MIN_SIZE

----------------------------------------------------------------------------
(* The capture pipeline: what runs when a raster request settles *)

\* App.tsx takeScreenshot lines 201-203: the cropped canvas
appCanvas(sel) == <<sel.width, sel.height>>

\* slip: the page scroll offset not added to the source origin
appDrawImage_NoScroll(sel, scr) ==
    <<sel.x, sel.y, sel.width, sel.height, 0, 0, sel.width, sel.height>>

\* App.tsx takeScreenshot lines 209-217: the drawImage arguments
appDrawImage(sel, scr) ==
    LET sourceX == sel.x + scr.x
        sourceY == sel.y + scr.y
    IN  <<sourceX, sourceY, sel.width, sel.height, 0, 0, sel.width, sel.height>>

\* ScreenCaptureTool.tsx handleMouseUp lines 97-99
sctCanvas(a) == <<a.width, a.height>>

\* ScreenCaptureTool.tsx handleMouseUp lines 104-108
sctDrawImage(a, scr) ==
    <<a.x, a.y, a.width, a.height, 0, 0, a.width, a.height>>

\* a request in flight: the closure suspended at `await html2canvas(...)`
\* (area: the rectangle it will crop; rel: the overlay-relative selectionArea the
\* overlay flow computed it from; cancelled: the user cancelled meanwhile)
Request(flow, area, rel) ==
    [flow |-> flow, area |-> area, rel |-> rel, cancelled |-> FALSE]

RemoveAt(seq, i) == [j \in 1..(Len(seq) - 1) |-> IF j < i THEN seq[j] ELSE seq[j + 1]]

\* the user cancelled while these requests were in flight
MarkCancelled(seq) == [j \in 1..Len(seq) |-> [seq[j] EXCEPT !.cancelled = TRUE]]

\* what a settled request handed to the canvas and to the download collaborator
Outcome(req, kind, canvas, draw) ==
    Some([flow |-> req.flow, kind |-> kind, cancelled |-> req.cancelled,
          area |-> req.area, rel |-> req.rel, canvas |-> canvas, draw |-> draw])

\* bound of the model: a run handles at most MaxEvents events
Tick == events < MaxEvents /\ events' = events + 1

----------------------------------------------------------------------------
Init ==
    /\ mounted \in {"App", "Tool"}
    /\ ptr \in Points
    /\ scroll = [x |-> 0, y |-> 0]
    /\ isSelecting = FALSE
    /\ selection = NULL
    /\ startPos = NULL
    /\ isDragging = FALSE
    /\ dragOffset = NULL
    /\ isResizing = FALSE
    /\ resizeType = NULL
    /\ resizeStartPos = NULL
    /\ sctIsCapturing = FALSE
    /\ sctIsSelecting = FALSE
    /\ selectionArea = NULL
    /\ overlayRect \in IF mounted = "Tool" THEN OverlayRects
                                          ELSE {[left |-> 0, top |-> 0]}
    /\ pending = <<>>
    /\ out = NULL
    /\ events = 0

----------------------------------------------------------------------------
(* The page *)

windowScroll(s) ==
    /\ Tick
    /\ s # scroll
    /\ scroll' = s
    /\ out' = NULL
    /\ UNCHANGED <<mounted, ptr, appVars, sctVars, overlayRect, pending>>

----------------------------------------------------------------------------
(* App.tsx actions *)

\* "Select Area" button, disabled={isSelecting}
handleStartSelection ==
    /\ mounted = "App"
    /\ Tick
    /\ ~isSelecting
    /\ isSelecting' = TRUE
    /\ startPos' = Some(ptr)
    /\ selection' = NULL
    /\ out' = NULL
    /\ UNCHANGED <<mounted, ptr, scroll, isDragging, dragOffset, isResizing,
                   resizeType, resizeStartPos, sctVars, overlayRect, pending>>

handleStartDrag ==
    /\ mounted = "App"
    /\ Tick
    /\ selection # NULL
    /\ OnBody(Val(selection), ptr)
    /\ isDragging' = TRUE
    /\ dragOffset' = Some([x |-> ptr.x - Val(selection).x,
                           y |-> ptr.y - Val(selection).y])
    /\ out' = NULL
    /\ UNCHANGED <<mounted, ptr, scroll, isSelecting, selection, startPos,
                   isResizing, resizeType, resizeStartPos, sctVars, overlayRect,
                   pending>>

handleStartResize(type) ==
    /\ mounted = "App"
    /\ Tick
    /\ selection # NULL
    /\ OnHandle(Val(selection), type, ptr)
    /\ isResizing' = TRUE
    /\ resizeType' = Some(type)
    /\ resizeStartPos' = Some([x |-> Val(selection).x, y |-> Val(selection).y,
                               width |-> Val(selection).width,
                               height |-> Val(selection).height,
                               startX |-> ptr.x, startY |-> ptr.y])
    /\ out' = NULL
    /\ UNCHANGED <<mounted, ptr, scroll, isSelecting, selection, startPos,
                   isDragging, dragOffset, sctVars, overlayRect, pending>>

\* the branch of handleMouseMove's if / else-if chain that is taken
DrawBranch == isSelecting /\ startPos # NULL
DragBranch == ~DrawBranch /\ isDragging /\ selection # NULL /\ dragOffset # NULL
ResizeBranch ==
    /\ ~DrawBranch
    /\ ~(isDragging /\ selection # NULL /\ dragOffset # NULL)
    /\ isResizing /\ resizeStartPos # NULL /\ resizeType # NULL

\* slip: the drag branch puts the origin under the pointer, forgetting the offset
MovedSelection_DragIgnoresOffset(p) ==
    IF DrawBranch
    THEN Some(createSelection(Val(startPos).x, Val(startPos).y, p.x, p.y))
    ELSE IF DragBranch
    THEN Some([Val(selection) EXCEPT !.x = p.x, !.y = p.y])
    ELSE IF ResizeBranch
    THEN Some(calculateResize(Val(resizeStartPos), Val(resizeType), p.x, p.y))
    ELSE selection

\* the selection handleMouseMove sets for a pointer at p
MovedSelection(p) ==
    IF DrawBranch
    THEN Some(createSelection(Val(startPos).x, Val(startPos).y, p.x, p.y))
    ELSE IF DragBranch
    THEN Some([Val(selection) EXCEPT !.x = p.x - Val(dragOffset).x,
                                     !.y = p.y - Val(dragOffset).y])
    ELSE IF ResizeBranch
    THEN Some(calculateResize(Val(resizeStartPos), Val(resizeType), p.x, p.y))
    ELSE selection

\* a mousemove to p; the window listener runs only while it is registered
handleMouseMove(p) ==
    /\ mounted = "App"
    /\ Tick
    /\ p # ptr
    /\ ptr' = p
    /\ selection' = IF ListenersActive THEN MovedSelection(p) ELSE selection
    /\ selection' # NULL => InBounds(Val(selection'))
    /\ out' = NULL
    /\ UNCHANGED <<mounted, scroll, isSelecting, startPos, isDragging, dragOffset,
                   isResizing, resizeType, resizeStartPos, sctVars, overlayRect,
                   pending>>

handleMouseUp_ResizeAnchorKept ==
    /\ mounted = "App"
    /\ Tick
    /\ ListenersActive
    /\ isSelecting' = FALSE
    /\ isDragging' = FALSE
    /\ dragOffset' = NULL
    /\ isResizing' = FALSE
    /\ out' = NULL
    /\ UNCHANGED <<mounted, ptr, scroll, selection, startPos, resizeType,
                   resizeStartPos, sctVars, overlayRect, pending>>

handleMouseUp ==
    /\ mounted = "App"
    /\ Tick
    /\ ListenersActive
    /\ isSelecting' = FALSE
    /\ isDragging' = FALSE
    /\ dragOffset' = NULL
    /\ isResizing' = FALSE
    /\ resizeType' = NULL
    /\ resizeStartPos' = NULL
    /\ out' = NULL
    /\ UNCHANGED <<mounted, ptr, scroll, selection, startPos, sctVars,
                   overlayRect, pending>>

\* "Capture Selected Area" button, rendered while a selection exists; up to the await
takeScreenshot ==
    /\ mounted = "App"
    /\ Tick
    /\ selection # NULL
    /\ Len(pending) < MaxInFlight
    /\ pending' = Append(pending, Request("App", Val(selection), NULL))
    /\ out' = NULL
    /\ UNCHANGED <<mounted, ptr, scroll, appVars, sctVars, overlayRect>>

resetSelection_StartPosKept ==
    /\ mounted = "App"
    /\ Tick
    /\ selection # NULL
    /\ selection' = NULL
    /\ pending' = MarkCancelled(pending)
    /\ out' = NULL
    /\ UNCHANGED <<mounted, ptr, scroll, isSelecting, startPos, isDragging, dragOffset,
                   isResizing, resizeType, resizeStartPos, sctVars, overlayRect>>

\* "Clear Selection" button, rendered while a selection exists
resetSelection ==
    /\ mounted = "App"
    /\ Tick
    /\ selection # NULL
    /\ selection' = NULL
    /\ startPos' = NULL
    /\ pending' = MarkCancelled(pending)
    /\ out' = NULL
    /\ UNCHANGED <<mounted, ptr, scroll, isSelecting, isDragging, dragOffset,
                   isResizing, resizeType, resizeStartPos, sctVars, overlayRect>>

\* takeScreenshot after the await: html2canvas resolved; ctx is getContext('2d')
takeScreenshotResolved(i, ctx) ==
    /\ mounted = "App"
    /\ Tick
    /\ i \in 1..Len(pending)
    /\ pending[i].flow = "App"
    /\ pending' = RemoveAt(pending, i)
    /\ IF ctx
       THEN /\ out' = Outcome(pending[i], "image", appCanvas(pending[i].area),
                              appDrawImage(pending[i].area, scroll))
            \* resetSelection()
            /\ selection' = NULL
            /\ startPos' = NULL
       ELSE /\ out' = Outcome(pending[i], "noctx", appCanvas(pending[i].area), <<>>)
            /\ UNCHANGED <<selection, startPos>>
    /\ UNCHANGED <<mounted, ptr, scroll, isSelecting, isDragging, dragOffset,
                   isResizing, resizeType, resizeStartPos, sctVars, overlayRect>>

\* takeScreenshot after the await: html2canvas rejected; the catch only logs
takeScreenshotRejected(i) ==
    /\ mounted = "App"
    /\ Tick
    /\ i \in 1..Len(pending)
    /\ pending[i].flow = "App"
    /\ pending' = RemoveAt(pending, i)
    /\ out' = Outcome(pending[i], "rejected", <<>>, <<>>)
    /\ UNCHANGED <<mounted, ptr, scroll, appVars, sctVars, overlayRect>>

----------------------------------------------------------------------------
(* ScreenCaptureTool.tsx actions *)

\* "Capture Screen" button, disabled={isCapturing}
startCapture ==
    /\ mounted = "Tool"
    /\ Tick
    /\ ~sctIsCapturing
    /\ sctIsCapturing' = TRUE
    /\ sctIsSelecting' = TRUE
    /\ selectionArea' = NULL
    /\ out' = NULL
    /\ UNCHANGED <<mounted, ptr, scroll, appVars, overlayRect, pending>>

\* "Cancel" button inside the overlay, rendered while isCapturing
cancelCapture ==
    /\ mounted = "Tool"
    /\ Tick
    /\ sctIsCapturing
    /\ sctIsCapturing' = FALSE
    /\ sctIsSelecting' = FALSE
    /\ selectionArea' = NULL
    /\ pending' = MarkCancelled(pending)
    /\ out' = NULL
    /\ UNCHANGED <<mounted, ptr, scroll, appVars, overlayRect>>

sctHandleMouseDown ==
    /\ mounted = "Tool"
    /\ Tick
    /\ sctIsCapturing
    /\ OnOverlay(ptr)
    /\ sctIsSelecting
    /\ LET startX == ptr.x - overlayRect.left
           startY == ptr.y - overlayRect.top
       IN  selectionArea' = Some([startX |-> startX, startY |-> startY,
                                  endX |-> startX, endY |-> startY])
    /\ out' = NULL
    /\ UNCHANGED <<mounted, ptr, scroll, appVars, sctIsCapturing, sctIsSelecting,
                   overlayRect, pending>>

\* a mousemove to p; the overlay's handler runs only while the overlay is rendered
sctHandleMouseMove(p) ==
    /\ mounted = "Tool"
    /\ Tick
    /\ p # ptr
    /\ ptr' = p
    /\ IF sctIsCapturing /\ OnOverlay(p) /\ sctIsSelecting /\ selectionArea # NULL
       THEN selectionArea' =
                Some([Val(selectionArea) EXCEPT !.endX = p.x - overlayRect.left,
                                                !.endY = p.y - overlayRect.top])
       ELSE UNCHANGED selectionArea
    /\ out' = NULL
    /\ UNCHANGED <<mounted, scroll, appVars, sctIsCapturing, sctIsSelecting,
                   overlayRect, pending>>

\* handleMouseUp up to the await (or to the early cancelCapture())
sctHandleMouseUp ==
    /\ mounted = "Tool"
    /\ Tick
    /\ sctIsCapturing
    /\ OnOverlay(ptr)
    /\ sctIsSelecting /\ selectionArea # NULL
    /\ LET a == sctCropArea(Val(selectionArea), overlayRect)
       IN  IF sctTooSmall(a)
           THEN \* setIsSelecting(false); cancelCapture(); return
                /\ sctIsCapturing' = FALSE
                /\ sctIsSelecting' = FALSE
                /\ selectionArea' = NULL
                /\ UNCHANGED pending
           ELSE /\ Len(pending) < MaxInFlight
                /\ sctIsSelecting' = FALSE
                /\ pending' = Append(pending, Request("Tool", a, selectionArea))
                /\ UNCHANGED <<sctIsCapturing, selectionArea>>
    /\ out' = NULL
    /\ UNCHANGED <<mounted, ptr, scroll, appVars, overlayRect>>

\* handleMouseUp after the await: html2canvas resolved; ctx is getContext('2d'),
\* blob is what toBlob hands to its callback
sctCaptureResolved(i, ctx, blob) ==
    /\ mounted = "Tool"
    /\ Tick
    /\ i \in 1..Len(pending)
    /\ pending[i].flow = "Tool"
    /\ ~ctx => ~blob
    /\ pending' = RemoveAt(pending, i)
    /\ out' = IF ctx
              THEN Outcome(pending[i], IF blob THEN "image" ELSE "noblob",
                           sctCanvas(pending[i].area),
                           sctDrawImage(pending[i].area, scroll))
              ELSE Outcome(pending[i], "noctx", sctCanvas(pending[i].area), <<>>)
    \* cancelCapture()
    /\ sctIsCapturing' = FALSE
    /\ sctIsSelecting' = FALSE
    /\ selectionArea' = NULL
    /\ UNCHANGED <<mounted, ptr, scroll, appVars, overlayRect>>

\* handleMouseUp after the await: html2canvas rejected; catch logs, then cancelCapture()
sctCaptureRejected(i) ==
    /\ mounted = "Tool"
    /\ Tick
    /\ i \in 1..Len(pending)
    /\ pending[i].flow = "Tool"
    /\ pending' = RemoveAt(pending, i)
    /\ out' = Outcome(pending[i], "rejected", <<>>, <<>>)
    /\ sctIsCapturing' = FALSE
    /\ sctIsSelecting' = FALSE
    /\ selectionArea' = NULL
    /\ UNCHANGED <<mounted, ptr, scroll, appVars, overlayRect>>

----------------------------------------------------------------------------
Next ==
    \/ \E s \in Scrolls : windowScroll(s)
    \/ handleStartSelection
    \/ handleStartDrag
    \/ \E type \in RESIZE_HANDLES : handleStartResize(type)
    \/ \E p \in Points : handleMouseMove(p)
    \/ handleMouseUp
    \/ takeScreenshot
    \/ resetSelection
    \/ \E i \in 1..MaxInFlight, ctx \in BOOLEAN : takeScreenshotResolved(i, ctx)
    \/ \E i \in 1..MaxInFlight : takeScreenshotRejected(i)
    \/ startCapture
    \/ cancelCapture
    \/ sctHandleMouseDown
    \/ \E p \in Points : sctHandleMouseMove(p)
    \/ sctHandleMouseUp
    \/ \E i \in 1..MaxInFlight, ctx \in BOOLEAN, blob \in BOOLEAN :
           sctCaptureResolved(i, ctx, blob)
    \/ \E i \in 1..MaxInFlight : sctCaptureRejected(i)

Spec == Init /\ [][Next]_vars

----------------------------------------------------------------------------
(* Properties *)

\* a request has just settled: `out` holds what it did
Settled(flow) == out # NULL /\ Val(out).flow = flow
Cropped(flow) == Settled(flow) /\ Val(out).kind \in {"image", "noblob"}

\* this step is a pointer-move handled by the resize branch of App's handleMouseMove
ResizeMove == mounted = "App" /\ ptr' # ptr /\ ListenersActive /\ ResizeBranch
\* this step is a pointer-move handled by the drawing branch
DrawMove == mounted = "App" /\ ptr' # ptr /\ ListenersActive /\ DrawBranch
\* this step is a pointer-move handled by the dragging branch
DragMove == mounted = "App" /\ ptr' # ptr /\ ListenersActive /\ DragBranch
\* this step is an overlay pointer-release that issued a raster request
SctRelease == mounted = "Tool" /\ Len(pending') = Len(pending) + 1

Snap == Val(resizeStartPos)
Handle == Val(resizeType)
Horizontal(type) == Includes(type, "e") \/ Includes(type, "w")
Vertical(type) == Includes(type, "n") \/ Includes(type, "s")

\* C1: in the button-driven controller at most one of isSelecting, isDragging,
\* isResizing is true in every reachable state (no gesture starts inside another).
C1_AtMostOneInteraction ==
    mounted = "App" =>
        /\ ~(isSelecting /\ isDragging)
        /\ ~(isSelecting /\ isResizing)
        /\ ~(isDragging /\ isResizing)

\* C2: when a capture has just ended, whatever its outcome, the selection is cleared:
\* no rectangle and no interaction flag set (overlay flow: isCapturing false too).
C2_CaptureEndsCleared ==
    /\ Settled("App") =>
           selection = NULL /\ ~isSelecting /\ ~isDragging /\ ~isResizing
    /\ Settled("Tool") =>
           selectionArea = NULL /\ ~sctIsSelecting /\ ~sctIsCapturing

\* C3: at most one raster request is in flight at any time, in both flows.
C3_SingleRequestInFlight == Len(pending) <= 1

\* C4: in the button-driven flow the region copied from the raster is
\* [rect.x + sx, rect.y + sy, rect.width, rect.height], drawn at (0,0) with the same
\* size onto a canvas of rect.width x rect.height; so the source origin of a rectangle
\* moves by exactly the scroll offset (by 500 in y between scroll (0,0) and (0,500)).
C4_AppCropRegion ==
    Cropped("App") =>
        LET r == Val(out).area
            d == Val(out).draw
        IN  /\ d = <<r.x + scroll.x, r.y + scroll.y, r.width, r.height,
                     0, 0, r.width, r.height>>
            /\ Val(out).canvas = <<r.width, r.height>>
            /\ \A s \in Scrolls :
                   /\ appDrawImage(r, s)[1] - appDrawImage(r, [x |-> 0, y |-> 0])[1] = s.x
                   /\ appDrawImage(r, s)[2] - appDrawImage(r, [x |-> 0, y |-> 0])[2] = s.y

C4_Witness ==
    /\ Cropped("App")
    /\ scroll = [x |-> 0, y |-> ScrollShiftY]
    /\ Val(out).area.width > 0
    /\ Val(out).area.height > 0

\* C5: in the overlay flow the crop source origin is the normalized overlay-relative
\* corner plus the overlay's bounding-box offset plus the page scroll offset.
C5_OverlayCropOrigin ==
    Cropped("Tool") =>
        LET a == Val(Val(out).rel)
            d == Val(out).draw
        IN  /\ d[1] = MathMin(a.startX, a.endX) + overlayRect.left + scroll.x
            /\ d[2] = MathMin(a.startY, a.endY) + overlayRect.top + scroll.y

\* C6 as claimed: every resize pointer-move yields width >= MIN_SIZE and
\* height >= MIN_SIZE.
C6_ResizeAtLeastMinSize ==
    [][ResizeMove =>
          /\ Val(selection').width >= MIN_SELECTION_SIZE
          /\ Val(selection').height >= MIN_SELECTION_SIZE]_vars

\* C6 amended: every resize pointer-move yields width >= MIN_SIZE when the handle
\* names e or w and height >= MIN_SIZE when it names n or s; a dimension the handle
\* does not name keeps its snapshot value, whatever that is.
C6_ResizedDimensionAtLeastMinSize ==
    [][ResizeMove =>
          /\ Horizontal(Handle) => Val(selection').width >= MIN_SELECTION_SIZE
          /\ Vertical(Handle) => Val(selection').height >= MIN_SELECTION_SIZE
          /\ ~Horizontal(Handle) => Val(selection').width = Snap.width
          /\ ~Vertical(Handle) => Val(selection').height = Snap.height]_vars

\* an 'e' resize has clamped the width of a rectangle drawn less than MIN_SIZE high
C6_Witness ==
    /\ mounted = "App" /\ ResizeBranch /\ selection # NULL
    /\ Handle = "e"
    /\ Snap.width > MIN_SELECTION_SIZE
    /\ Val(selection).width = MIN_SELECTION_SIZE
    /\ Val(selection).height < MIN_SELECTION_SIZE

\* C7 as claimed: a resize leaves the edge opposite to each edge the handle names
\* where the snapshot had it.
C7_OppositeEdgeFixed ==
    [][ResizeMove =>
          LET r == Val(selection')
          IN  /\ Includes(Handle, "e") => r.x = Snap.x
              /\ Includes(Handle, "w") => r.x + r.width = Snap.x + Snap.width
              /\ Includes(Handle, "s") => r.y = Snap.y
              /\ Includes(Handle, "n") => r.y + r.height = Snap.y + Snap.height]_vars

\* C7 amended: 'e' and 's' always leave the left and top edge fixed; 'w' ('n') leaves
\* the right (bottom) edge fixed as long as the width (height) is not clamped, and
\* when it is clamped the edge moves to start origin + delta + MIN_SIZE.
C7_OppositeEdgeFixedUnlessClamped ==
    [][ResizeMove =>
          LET r == Val(selection')
              deltaX == ptr'.x - Snap.startX
              deltaY == ptr'.y - Snap.startY
          IN  /\ Includes(Handle, "e") => r.x = Snap.x
              /\ Includes(Handle, "s") => r.y = Snap.y
              /\ Includes(Handle, "w") =>
                     r.x + r.width =
                         IF Snap.width - deltaX >= MIN_SELECTION_SIZE
                         THEN Snap.x + Snap.width
                         ELSE Snap.x + deltaX + MIN_SELECTION_SIZE
              /\ Includes(Handle, "n") =>
                     r.y + r.height =
                         IF Snap.height - deltaY >= MIN_SELECTION_SIZE
                         THEN Snap.y + Snap.height
                         ELSE Snap.y + deltaY + MIN_SELECTION_SIZE]_vars

\* a 'w' resize has widened the rectangle and its right edge is where it was
C7_Witness ==
    /\ mounted = "App" /\ ResizeBranch /\ selection # NULL
    /\ Handle = "w"
    /\ Val(selection).x < Snap.x
    /\ Val(selection).width > Snap.width
    /\ Val(selection).x + Val(selection).width = Snap.x + Snap.width

\* r is the bounding box of (x1,y1) and (x2,y2)
IsBoundingBox(r, x1, y1, x2, y2) ==
    /\ r.x <= x1 /\ r.x <= x2 /\ r.x \in {x1, x2}
    /\ r.y <= y1 /\ r.y <= y2 /\ r.y \in {y1, y2}
    /\ r.width >= 0 /\ r.width \in {x2 - x1, x1 - x2}
    /\ r.height >= 0 /\ r.height \in {y2 - y1, y1 - y2}

\* C8: the rectangle a drawing pointer-move sets is the bounding box of the start
\* point and the pointer, the same whichever of the two points comes first; and the
\* rectangle the overlay flow hands to the capture is the same bounding box of its
\* start and end points.
C8_SelectionIsBoundingBox ==
    [][/\ DrawMove =>
              LET p1 == Val(startPos)
                  p2 == ptr'
              IN  /\ selection' # NULL
                  /\ IsBoundingBox(Val(selection'), p1.x, p1.y, p2.x, p2.y)
                  /\ createSelection(p2.x, p2.y, p1.x, p1.y) = Val(selection')
       /\ SctRelease =>
              LET a == Val(selectionArea)
                  got == pending'[Len(pending')].area
              IN  /\ IsBoundingBox(got, a.startX + overlayRect.left,
                                   a.startY + overlayRect.top,
                                   a.endX + overlayRect.left,
                                   a.endY + overlayRect.top)
                  /\ got = createSelection(a.startX + overlayRect.left,
                                           a.startY + overlayRect.top,
                                           a.endX + overlayRect.left,
                                           a.endY + overlayRect.top)]_vars

\* a rectangle drawn from its bottom-right corner to its top-left corner
C8_Witness ==
    /\ mounted = "App" /\ DrawBranch /\ selection # NULL
    /\ Val(selection).x = ptr.x /\ Val(selection).y = ptr.y
    /\ Val(startPos).x > ptr.x /\ Val(startPos).y > ptr.y
    /\ Val(selection).width = Val(startPos).x - ptr.x

\* C9: the rectangle, when present, never has a negative width or height.
C9_NonNegativeSize ==
    (mounted = "App" /\ selection # NULL) =>
        Val(selection).width >= 0 /\ Val(selection).height >= 0

\* an 'e' resize dragged past the left edge: the width is clamped, not negative
C9_Witness ==
    /\ mounted = "App" /\ ResizeBranch /\ selection # NULL
    /\ Handle = "e"
    /\ Snap.width + (ptr.x - Snap.startX) < 0
    /\ Val(selection).width = MIN_SELECTION_SIZE

\* C10: a capture cancelled while its raster request was pending produces no crop
\* and no download when the raster arrives.
C10_CancelledCaptureDiscarded ==
    (out # NULL /\ Val(out).cancelled) =>
        Val(out).kind \notin {"image", "noblob"} /\ Val(out).draw = <<>>

\* C11: in the button-driven flow a raster request is issued only for a rectangle
\* that exists and is at least MIN_SELECTION_SIZE wide.
C11_RequestNeedsMinWidth ==
    [][(mounted = "App" /\ Len(pending') > Len(pending)) =>
          (selection # NULL /\ Val(selection).width >= MIN_SELECTION_SIZE)]_vars

\* C12: releasing the pointer over an overlay selection narrower or lower than
\* SCT_MIN_SIZE issues no request, produces no image and leaves the tool fully
\* reset; a selection of at least SCT_MIN_SIZE both ways issues exactly one request.
C12_SmallReleaseResets ==
    [][sctHandleMouseUp =>
          LET a == Val(selectionArea)
              width == MathAbs(a.endX - a.startX)
              height == MathAbs(a.endY - a.startY)
          IN  IF width < SCT_MIN_SIZE \/ height < SCT_MIN_SIZE
              THEN /\ pending' = pending
                   /\ out' = NULL
                   /\ ~sctIsCapturing' /\ ~sctIsSelecting' /\ selectionArea' = NULL
              ELSE /\ Len(pending') = Len(pending) + 1
                   /\ SubSeq(pending', 1, Len(pending)) = pending
                   /\ pending'[Len(pending')].flow = "Tool"
                   /\ pending'[Len(pending')].rel = selectionArea]_vars

\* a full-size release has issued its request (since cancelled), and a release of
\* a selection that is SCT_MIN_SIZE wide or more but too low is about to run
C12_Witness ==
    /\ mounted = "Tool"
    /\ Len(pending) = 1 /\ pending[1].flow = "Tool" /\ pending[1].cancelled
    /\ pending[1].area.width >= SCT_MIN_SIZE /\ pending[1].area.height >= SCT_MIN_SIZE
    /\ sctIsCapturing /\ sctIsSelecting /\ selectionArea # NULL /\ OnOverlay(ptr)
    /\ MathAbs(Val(selectionArea).endX - Val(selectionArea).startX) >= SCT_MIN_SIZE
    /\ MathAbs(Val(selectionArea).endY - Val(selectionArea).startY) < SCT_MIN_SIZE

\* the App component's state cells, and what resetSelection() makes of them
AppState ==
    [isSelecting |-> isSelecting, selection |-> selection, startPos |-> startPos,
     isDragging |-> isDragging, dragOffset |-> dragOffset, isResizing |-> isResizing,
     resizeType |-> resizeType, resizeStartPos |-> resizeStartPos]

resetSelectionOf(st) == [st EXCEPT !.selection = NULL, !.startPos = NULL]

\* the ScreenCaptureTool component's state cells, and what cancelCapture() makes of them
SctState ==
    [isCapturing |-> sctIsCapturing, isSelecting |-> sctIsSelecting,
     selectionArea |-> selectionArea]

cancelCaptureOf(st) ==
    [st EXCEPT !.isCapturing = FALSE, !.isSelecting = FALSE, !.selectionArea = NULL]

\* C13 as stated: Cancel/Reset invoked from Idle (no gesture in progress) changes
\* nothing: the state stays Idle and the rectangle keeps its value.
C13_CancelFromIdleNoOp ==
    [][/\ (resetSelection /\ ~ListenersActive) => UNCHANGED appVars
       /\ (cancelCapture /\ ~sctIsSelecting) => UNCHANGED sctVars]_vars

\* C13 amended: Cancel/Reset invoked from Idle keeps the state Idle and clears
\* the rectangle (with the App's start point, and the overlay's capturing flag);
\* a further invocation in a row would change nothing, so many equal one.
C13_CancelFromIdleClearsOnce ==
    [][/\ (resetSelection /\ ~ListenersActive) =>
             /\ AppState' = resetSelectionOf(AppState)
             /\ ~ListenersActive' /\ selection' = NULL /\ startPos' = NULL
             /\ resetSelectionOf(AppState') = AppState'
       /\ (cancelCapture /\ ~sctIsSelecting) =>
             /\ SctState' = cancelCaptureOf(SctState)
             /\ ~sctIsCapturing' /\ ~sctIsSelecting' /\ selectionArea' = NULL
             /\ cancelCaptureOf(SctState') = SctState']_vars

\* Reset has run (it found a request in flight) and the App is Idle with no rectangle
C13_Witness ==
    /\ mounted = "App"
    /\ ~ListenersActive
    /\ selection = NULL /\ startPos = NULL
    /\ Len(pending) = 1 /\ pending[1].cancelled

\* C14 as stated: a pointer-release in any active state of the App leaves it Idle
\* with the drawing start point, the drag offset, the resize snapshot and the
\* resize handle type all none, and the rectangle as it was.
C14_ReleaseClearsEveryAnchor ==
    [][handleMouseUp =>
          /\ ~ListenersActive'
          /\ startPos' = NULL /\ dragOffset' = NULL
          /\ resizeStartPos' = NULL /\ resizeType' = NULL
          /\ selection' = selection]_vars

\* C14 amended: a pointer-release in any active state of the App leaves it Idle
\* with the drag offset, the resize snapshot and the resize handle type none,
\* and leaves the rectangle and the drawing start point as they were.
C14_ReleaseClearsGestureAnchors ==
    [][handleMouseUp =>
          /\ ~ListenersActive'
          /\ dragOffset' = NULL /\ resizeStartPos' = NULL /\ resizeType' = NULL
          /\ selection' = selection
          /\ startPos' = startPos]_vars

\* a drawing gesture was released: the rectangle and its start point are still there
C14_Witness ==
    /\ mounted = "App"
    /\ ~ListenersActive
    /\ dragOffset = NULL /\ resizeStartPos = NULL /\ resizeType = NULL
    /\ selection # NULL /\ startPos # NULL
    /\ Val(selection).width = PtrFar /\ Val(selection).height = PtrFar

\* C15: a Reset invoked while drawing, dragging or resizing leaves the App Idle:
\* no interaction flag is true and every anchor is none after it, so that once
\* the rectangle and the start point are cleared a pointer-move changes nothing.
C15_ResetEndsInteraction ==
    [][/\ (resetSelection /\ ListenersActive) =>
             /\ ~ListenersActive'
             /\ startPos' = NULL /\ dragOffset' = NULL
             /\ resizeStartPos' = NULL /\ resizeType' = NULL
       /\ (mounted = "App" /\ ptr' # ptr /\ selection = NULL /\ startPos = NULL) =>
             selection' = NULL]_vars

\* C16: the rectangle a resize pointer-move sets is the one the reference rules
\* give for the snapshot, the handle and the pointer: e and s grow the size by the
\* delta, w and n shrink it by the delta and shift the origin by the unclamped
\* delta, sizes are clamped to MIN_SIZE, a corner applies both of its rules, and a
\* field the handle does not address keeps its snapshot value.
C16_ResizeEqualsReference ==
    [][ResizeMove =>
          LET r == Val(selection')
              deltaX == ptr'.x - Snap.startX
              deltaY == ptr'.y - Snap.startY
              AtLeastMin(v) == IF v < MIN_SELECTION_SIZE THEN MIN_SELECTION_SIZE ELSE v
          IN  /\ r.width = CASE Handle \in {"ne", "e", "se"} -> AtLeastMin(Snap.width + deltaX)
                              [] Handle \in {"nw", "w", "sw"} -> AtLeastMin(Snap.width - deltaX)
                              [] OTHER -> Snap.width
              /\ r.x = IF Handle \in {"nw", "w", "sw"} THEN Snap.x + deltaX ELSE Snap.x
              /\ r.height = CASE Handle \in {"sw", "s", "se"} -> AtLeastMin(Snap.height + deltaY)
                               [] Handle \in {"nw", "n", "ne"} -> AtLeastMin(Snap.height - deltaY)
                               [] OTHER -> Snap.height
              /\ r.y = IF Handle \in {"nw", "n", "ne"} THEN Snap.y + deltaY ELSE Snap.y]_vars

\* a 'w' resize past the right edge: the width is clamped and the origin has
\* moved by the whole delta, so the right edge has drifted
C16_Witness ==
    /\ mounted = "App" /\ ResizeBranch /\ selection # NULL
    /\ Handle = "w"
    /\ Snap.width > MIN_SELECTION_SIZE
    /\ Val(selection).width = MIN_SELECTION_SIZE
    /\ Val(selection).x = Snap.x + (ptr.x - Snap.startX)
    /\ Val(selection).x + Val(selection).width > Snap.x + Snap.width

C18_NoNewSelectionWhilePending ==
    [][Len(pending) > 0 =>
          /\ ~handleStartSelection
          /\ ~startCapture
          /\ ~sctHandleMouseDown]_vars

\* C19: the arrival of a raster result clears only the selection its capture was
\* invoked on: when the user has cancelled or reset since, or the rectangle is no
\* longer the captured one, the arrival leaves the App's selection and start point
\* alone; when the overlay was cancelled and a new session is open, the arrival
\* leaves isCapturing, isSelecting and the selection area alone.
C19_ArrivalSparesNewSelection ==
    [][out' # NULL =>
          LET r == Val(out')
          IN  /\ (r.flow = "App" /\ (r.cancelled \/ selection # Some(r.area))) =>
                     UNCHANGED <<selection, startPos>>
              /\ (r.flow = "Tool" /\ r.cancelled /\ sctIsCapturing) =>
                     UNCHANGED sctVars]_vars

\* C20: the source region an in-flight App capture copies on arrival, the
\* rectangle offset by the page scroll, is fixed when Capture is invoked: no step
\* that leaves the request in flight (a drag, a resize, a scroll) changes it.
C20_CropFixedAtInvocation ==
    [][\A i \in 1..Len(pending) :
          (pending[i].flow = "App" /\ Len(pending') >= Len(pending)) =>
              appDrawImage(pending'[i].area, scroll') =
                  appDrawImage(pending[i].area, scroll)]_vars

====
